---------------------------- MODULE Spec2Model ----------------------------
(***************************************************************************)
(* Model of the breath pacer (src/src/BreathPacer.ts): the regime compiler *)
(* BreathPacerUtilities.regimesToInstructions with validateRegime and      *)
(* makeRange, the interpolator guideHeight, and the playback engine        *)
(* BreathPacer (update / notify / start / pause / resume /                 *)
(* setInstructions / setConfig / subscribeToRegimeChanges) driven by       *)
(* window.requestAnimationFrame.                                           *)
(*                                                                         *)
(* Time.  The code computes in IEEE doubles; the model computes in exact   *)
(* integers.  Every time (point times, boundaries, elapsed t, frame        *)
(* instants) is held in ticks of 1/3 ms, so that msPerBreath / 3,          *)
(* 2000 / 3 and 100 / 3 are whole numbers for the rates of the catalogue.  *)
(* Requested durations (durationMs) stay in milliseconds, as submitted.    *)
(*                                                                         *)
(* Rounding.  A whole number of milliseconds is a double; a time with      *)
(* thirds of a millisecond is not, and a sum of such terms is rounded.     *)
(* The model keeps the exact value and leaves open, as an input of a run,  *)
(* on which side of the exact value an accumulated sum of inexact terms    *)
(* falls where the code compares it with a value it equals exactly: the    *)
(* loop variable of makeRange against its end (rangeOver) and totalTime    *)
(* against durationMs (sumUnder).  Deviations in the last bits have no     *)
(* other effect in the model: guideHeight, which evaluates m*t + b with a  *)
(* slope m that is in general not a double, is computed in exact fractions.*)
(***************************************************************************)
EXTENDS Integers, Sequences, FiniteSets, TLC

-----------------------------------------------------------------------------
(* Program constants *)

\* validateRegime: "regime.breathsPerMinute < 1"
MinBreathsPerMinute == 1

\* validateRegime: "regime.breathsPerMinute > 60"
MaxBreathsPerMinute == 60

\* validateRegime: "regime.durationMs < 10000"
MinDurationMs == 10000

\* (60 / breathsPerMinute) * 1000
MsPerMinute == 60000

\* makeRange(baseSegmentDur - (2000 / segmentsPerBreath), ...)
RandomRangeMs == 2000

\* makeRange(..., (100 / segmentsPerBreath))
RandomStepMs == 100

\* segmentsPerBreath = r.holdPos ? 3 : 2
HoldSegmentsPerBreath == 3

\* segmentsPerBreath = r.holdPos ? 3 : 2
PlainSegmentsPerBreath == 2

\* Ticks per millisecond: the largest segmentsPerBreath, so that a third of a
\* millisecond is one tick.
TicksPerMs == HoldSegmentsPerBreath

\* The messages validateRegime throws, and the value standing for "no throw".
ErrMinBpm == "The minimum breaths per minute is 1."
ErrMaxBpm == "The maximum breaths per minute is 60."
ErrMinDuration == "The minimum duration is 10000 (10 seconds)."
ErrMinBreaths == "The minmimum number of breaths during the total duration is 1."
NoError == "none"

-----------------------------------------------------------------------------
(* Bounds of the model *)

\* Math.random() is modelled as u / RandResolution for a whole u in
\* 0 .. RandResolution - 1.
RandResolution == 41

\* The outcomes of Math.random() that are explored: lowest, middle, highest.
RandSamples == {0, RandResolution \div 2, RandResolution - 1}

\* Length of the explored sequences of Math.random() outcomes; a compilation
\* that draws more often reads the sequence cyclically.
MaxDraws == 3

\* The generation loop is followed for at most this many breaths per regime;
\* a loop still running after them is reported as diverged.
MaxBreaths == 12

-----------------------------------------------------------------------------
(* Regimes: interface BreathPacerRegime *)

NoHold == "none"
HoldPositions == {NoHold, "postInhale", "postExhale"}

Regime(d, bpm, hold, rand) ==
    [durationMs |-> d, breathsPerMinute |-> bpm, holdPos |-> hold, randomize |-> rand]

Last(s) == s[Len(s)]

-----------------------------------------------------------------------------
(* BreathPacerUtilities.validateRegime: the message thrown, or NoError *)

\* regime.durationMs < (60 / regime.breathsPerMinute) * 1000, both sides
\* multiplied by breathsPerMinute (>= 1 where this is evaluated)
ShorterThanOneBreath(regime) ==
    regime.durationMs * regime.breathsPerMinute < MsPerMinute

\* Mutant of validateRegime: a regime of exactly the minimum duration is refused.
validateRegimeStrict(regime) ==
    IF regime.breathsPerMinute < MinBreathsPerMinute THEN ErrMinBpm
    ELSE IF regime.breathsPerMinute > MaxBreathsPerMinute THEN ErrMaxBpm
    ELSE IF regime.durationMs <= MinDurationMs THEN ErrMinDuration
    ELSE IF ShorterThanOneBreath(regime) THEN ErrMinBreaths
    ELSE NoError

validateRegime(regime) ==
    IF regime.breathsPerMinute < MinBreathsPerMinute THEN ErrMinBpm
    ELSE IF regime.breathsPerMinute > MaxBreathsPerMinute THEN ErrMaxBpm
    ELSE IF regime.durationMs < MinDurationMs THEN ErrMinDuration
    ELSE IF ShorterThanOneBreath(regime) THEN ErrMinBreaths
    ELSE NoError

-----------------------------------------------------------------------------
(* BreathPacerUtilities.makeRange *)

\* A time in ticks that no double holds exactly: not a whole number of ms.
Inexact(x) == x % TicksPerMs # 0

\* "i <= end" where i has been accumulated by "i += stepSize": at i = end in
\* exact arithmetic the accumulated double may lie above end (over).
RangeContinues(i, end, stepSize, over) ==
    \/ i < end
    \/ i = end /\ ~(over /\ Inexact(stepSize))

\* for (let i = start; i <= end; i += stepSize) { res.push(i) }
RECURSIVE makeRangeFrom(_, _, _, _, _)
makeRangeFrom(res, i, end, stepSize, over) ==
    IF RangeContinues(i, end, stepSize, over)
    THEN makeRangeFrom(Append(res, i), i + stepSize, end, stepSize, over)
    ELSE res

makeRange(start, end, stepSize, over) ==
    makeRangeFrom(<<>>, start, end, stepSize, over)

-----------------------------------------------------------------------------
(* BreathPacerUtilities.regimesToInstructions *)

segmentsPerBreath(r) ==
    IF r.holdPos # NoHold THEN HoldSegmentsPerBreath ELSE PlainSegmentsPerBreath

\* (60 / r.breathsPerMinute) * 1000, in ticks
msPerBreath(r) == (MsPerMinute * TicksPerMs) \div r.breathsPerMinute

\* Mutant of baseSegmentDur: the breath is halved whether or not it has a hold.
baseSegmentDurPlain(r) == msPerBreath(r) \div PlainSegmentsPerBreath

baseSegmentDur(r) == msPerBreath(r) \div segmentsPerBreath(r)

\* Mutant of msPerSegmentRange: +/- 2000 ms divided by two whether or not the
\* breath has a hold.
msPerSegmentRangeWide(r, rnd) ==
    makeRange(baseSegmentDur(r) - (RandomRangeMs * TicksPerMs) \div PlainSegmentsPerBreath,
              baseSegmentDur(r) + (RandomRangeMs * TicksPerMs) \div PlainSegmentsPerBreath,
              (RandomStepMs * TicksPerMs) \div segmentsPerBreath(r),
              rnd.rangeOver)

\* rnd is what a run of the compiler takes from outside the model:
\* [outcomes: the sequence of outcomes of Math.random(), rangeOver, sumUnder:
\* the sides on which the rounded sums fall].
msPerSegmentRange(r, rnd) ==
    makeRange(baseSegmentDur(r) - (RandomRangeMs * TicksPerMs) \div segmentsPerBreath(r),
              baseSegmentDur(r) + (RandomRangeMs * TicksPerMs) \div segmentsPerBreath(r),
              (RandomStepMs * TicksPerMs) \div segmentsPerBreath(r),
              rnd.rangeOver)

\* The n-th outcome of Math.random() (n = 1, 2, ...) under rnd.
RandomOutcome(rnd, n) == rnd.outcomes[((n - 1) % Len(rnd.outcomes)) + 1]

\* msPerSegmentRange[Math.floor(Math.random() * msPerSegmentRange.length)],
\* Math.random() returning u / RandResolution
PickFrom(range, u) == range[(u * Len(range)) \div RandResolution + 1]

\* segmentDur(): the closure of the regime; n is the number of the next draw.
segmentDur(r, rnd, n) ==
    IF r.randomize
    THEN PickFrom(msPerSegmentRange(r, rnd), RandomOutcome(rnd, n))
    ELSE baseSegmentDur(r)

\* A call of segmentDur() draws from Math.random() only for a randomized regime.
AfterDraw(r, n) == IF r.randomize THEN n + 1 ELSE n

\* "t = <t of the last point> + segmentDur(); points.push({t, h})"
\* g = [points, n, totalTime, breaths]
PushSegment(g, r, rnd, h) ==
    [g EXCEPT !.points = Append(@, [t |-> Last(@).t + segmentDur(r, rnd, g.n),
                                    h |-> h]),
              !.n = AfterDraw(r, @)]

\* Mutant of HoldSegment: "if (r.holdPos)" for "if (r.holdPos === pos)".
HoldSegmentAnyHold(g, r, rnd, pos, h) ==
    IF r.holdPos # NoHold THEN PushSegment(g, r, rnd, h) ELSE g

\* "if (r.holdPos === pos) { t = t + segmentDur(); points.push({t, h}) }"
HoldSegment(g, r, rnd, pos, h) ==
    IF r.holdPos = pos THEN PushSegment(g, r, rnd, h) ELSE g

\* "totalTime = t - startTime", at the end of a pass of the loop
EndOfBreath(g, startTime) ==
    [g EXCEPT !.totalTime = Last(g.points).t - startTime, !.breaths = @ + 1]

\* One pass of the body of "while (totalTime < r.durationMs)": one whole
\* breath: inhale, hold after it, exhale, hold after it.
OneBreath(g, r, rnd, startTime) ==
    EndOfBreath(
        HoldSegment(
            PushSegment(
                HoldSegment(PushSegment(g, r, rnd, 1), r, rnd, "postInhale", 1),
                r, rnd, 0),
            r, rnd, "postExhale", 0),
        startTime)

\* Mutant of GenerateBreaths: a breath is generated only if it would begin a
\* nominal breath length before the requested end.
RECURSIVE GenerateBreathsTruncating(_, _, _, _)
GenerateBreathsTruncating(g, r, rnd, startTime) ==
    IF g.totalTime + msPerBreath(r) < r.durationMs * TicksPerMs /\ g.breaths < MaxBreaths
    THEN GenerateBreathsTruncating(OneBreath(g, r, rnd, startTime), r, rnd, startTime)
    ELSE g

\* The segment durations of the regime are not all doubles.
InexactSegments(r) ==
    \/ Inexact(baseSegmentDur(r))
    \/ r.randomize /\ Inexact((RandomStepMs * TicksPerMs) \div segmentsPerBreath(r))

\* Mutant of LoopContinues: a breath is begun only if a nominal breath still
\* fits into the requested duration.
LoopContinuesWholeBreath(totalTime, r, rnd) ==
    totalTime + msPerBreath(r) <= r.durationMs * TicksPerMs

\* "totalTime < r.durationMs": at totalTime = durationMs in exact arithmetic
\* the accumulated double may lie below durationMs (sumUnder).
LoopContinues(totalTime, r, rnd) ==
    \/ totalTime < r.durationMs * TicksPerMs
    \/ /\ totalTime = r.durationMs * TicksPerMs
       /\ rnd.sumUnder
       /\ InexactSegments(r)

\* "while (totalTime < r.durationMs) { ... }", followed for MaxBreaths breaths.
RECURSIVE GenerateBreaths(_, _, _, _)
GenerateBreaths(g, r, rnd, startTime) ==
    IF LoopContinues(g.totalTime, r, rnd) /\ g.breaths < MaxBreaths
    THEN GenerateBreaths(OneBreath(g, r, rnd, startTime), r, rnd, startTime)
    ELSE g

\* Mutant of AfterLoop: "curBoundary += r.durationMs", the requested duration.
AfterLoopNominal(acc, r, rnd, g) ==
    [points      |-> g.points,
     boundaries  |-> Append(acc.boundaries,
                            [boundary |-> acc.curBoundary, regime |-> r]),
     curBoundary |-> acc.curBoundary + r.durationMs * TicksPerMs,
     n           |-> g.n,
     error       |-> NoError,
     diverged    |-> \/ acc.diverged
                     \/ /\ g.breaths >= MaxBreaths
                        /\ LoopContinues(g.totalTime, r, rnd),
     parts       |-> Append(acc.parts, [first |-> Len(acc.points) + 1,
                                        last  |-> Len(g.points)])]

\* Mutant of AfterLoop: "curBoundary = curRegimeActualDuration" for "+=".
AfterLoopForgetting(acc, r, rnd, g) ==
    [points      |-> g.points,
     boundaries  |-> Append(acc.boundaries,
                            [boundary |-> acc.curBoundary, regime |-> r]),
     curBoundary |-> Last(g.points).t - acc.curBoundary,
     n           |-> g.n,
     error       |-> NoError,
     diverged    |-> \/ acc.diverged
                     \/ /\ g.breaths >= MaxBreaths
                        /\ LoopContinues(g.totalTime, r, rnd),
     parts       |-> Append(acc.parts, [first |-> Len(acc.points) + 1,
                                        last  |-> Len(g.points)])]

\* Mutant of AfterLoop: the boundary carries the regime with its realized
\* duration.
AfterLoopDrifted(acc, r, rnd, g) ==
    [points      |-> g.points,
     boundaries  |-> Append(acc.boundaries,
                            [boundary |-> acc.curBoundary,
                             regime   |-> [r EXCEPT !.durationMs =
                                 (Last(g.points).t - acc.curBoundary) \div TicksPerMs]]),
     curBoundary |-> acc.curBoundary + (Last(g.points).t - acc.curBoundary),
     n           |-> g.n,
     error       |-> NoError,
     diverged    |-> \/ acc.diverged
                     \/ /\ g.breaths >= MaxBreaths
                        /\ LoopContinues(g.totalTime, r, rnd),
     parts       |-> Append(acc.parts, [first |-> Len(acc.points) + 1,
                                        last  |-> Len(g.points)])]

\* Mutant of AfterLoop: "curBoundary += <breaths generated> * msPerBreath".
AfterLoopNominalBreaths(acc, r, rnd, g) ==
    [points      |-> g.points,
     boundaries  |-> Append(acc.boundaries,
                            [boundary |-> acc.curBoundary, regime |-> r]),
     curBoundary |-> acc.curBoundary + g.breaths * msPerBreath(r),
     n           |-> g.n,
     error       |-> NoError,
     diverged    |-> \/ acc.diverged
                     \/ /\ g.breaths >= MaxBreaths
                        /\ LoopContinues(g.totalTime, r, rnd),
     parts       |-> Append(acc.parts, [first |-> Len(acc.points) + 1,
                                        last  |-> Len(g.points)])]

\* After the loop of a regime: curRegimeActualDuration, boundaries.push and
\* "curBoundary += curRegimeActualDuration"; g is what the loop left.
\* acc = [points, boundaries, curBoundary, n, error, diverged, parts]; parts is
\* history: per regime, the indices of the first and last point its loop pushed.
AfterLoop(acc, r, rnd, g) ==
    [points      |-> g.points,
     boundaries  |-> Append(acc.boundaries,
                            [boundary |-> acc.curBoundary, regime |-> r]),
     curBoundary |-> acc.curBoundary + (Last(g.points).t - acc.curBoundary),
     n           |-> g.n,
     error       |-> NoError,
     diverged    |-> \/ acc.diverged
                     \/ /\ g.breaths >= MaxBreaths
                        /\ LoopContinues(g.totalTime, r, rnd),
     parts       |-> Append(acc.parts, [first |-> Len(acc.points) + 1,
                                        last  |-> Len(g.points)])]

\* The body of "regimes.forEach(r => ...)" after validateRegime(r) has passed;
\* startTime = points[points.length - 1].t
CompileRegime(acc, r, rnd) ==
    AfterLoop(acc, r, rnd,
              GenerateBreaths([points |-> acc.points, n |-> acc.n,
                               totalTime |-> 0, breaths |-> 0],
                              r, rnd, Last(acc.points).t))

\* regimes.forEach: a throw of validateRegime leaves the loop and the function.
RECURSIVE ForEachRegime(_, _, _, _)
ForEachRegime(acc, regimes, i, rnd) ==
    IF i > Len(regimes) \/ acc.diverged THEN acc
    ELSE IF validateRegime(regimes[i]) # NoError
         THEN [acc EXCEPT !.error = validateRegime(regimes[i])]
         ELSE ForEachRegime(CompileRegime(acc, regimes[i], rnd), regimes, i + 1, rnd)

\* "return { points: points, boundaries: boundaries }", or the error thrown
\* (then nothing is returned: points and boundaries are empty).  diverged: a
\* generation loop did not end within MaxBreaths breaths.
Returned(acc) ==
    IF acc.error # NoError
    THEN [error |-> acc.error, points |-> <<>>, boundaries |-> <<>>,
          diverged |-> FALSE, parts |-> <<>>]
    ELSE [error |-> NoError, points |-> acc.points,
          boundaries |-> acc.boundaries, diverged |-> acc.diverged,
          parts |-> acc.parts]

regimesToInstructions(regimes, rnd) ==
    Returned(ForEachRegime([points |-> <<[t |-> 0, h |-> 0]>>, boundaries |-> <<>>,
                            curBoundary |-> 0, n |-> 1, error |-> NoError,
                            diverged |-> FALSE, parts |-> <<>>], regimes, 1, rnd))

-----
(* Inputs of the model *)

\* Frame-to-frame advances of the requestAnimationFrame timestamp, in ms: two
\* shorter than any regime can last (>= MinDurationMs) and one that is longer
\* than the regimes of the catalogue.
FrameDeltasMs == {5000, 15000}

PlainTen   == Regime(10000, 10, NoHold, FALSE)
PlainSix   == Regime(10000, 6, NoHold, FALSE)
HoldRandom == Regime(10000, 6, "postExhale", TRUE)
TooShort   == Regime(9000, 10, NoHold, FALSE)
TooSlow    == Regime(15000, 0, "postInhale", FALSE)

\* Regime lists that compile.
ValidLists ==
    { <<>>, <<PlainTen>>, <<PlainTen, PlainSix>>, <<HoldRandom, PlainTen>> }

\* Regime lists with an invalid regime at the first, second or third place.
InvalidLists ==
    { <<TooShort>>, <<PlainTen, TooSlow>>, <<PlainTen, PlainSix, TooShort>> }

\* What playback explores of the compiler's inputs from outside: one outcome
\* of Math.random() repeated, and each side of the rounded sums.
PlaybackOracles ==
    { [outcomes |-> [i \in 1..MaxDraws |-> u], rangeOver |-> over, sumUnder |-> under] :
          u \in RandSamples, over \in BOOLEAN, under \in BOOLEAN }

\* The compilations of the catalogue: each list under each sequence of
\* Math.random() outcomes, with what regimesToInstructions returns or throws.
Compilations ==
    { [regimes |-> l, result |-> regimesToInstructions(l, rnd)] :
          l \in ValidLists \cup InvalidLists, rnd \in PlaybackOracles }

\* Calls the application makes on one pacer after constructing it (start,
\* pause, resume, setInstructions, setConfig, subscribeToRegimeChanges), at most.
MaxCalls == 4

-----------------------------------------------------------------------------
(* State *)

\* lastInstant: number | null = null
Null == -1

VARIABLES
    \* fields of BreathPacer
    running,            \* this.running
    t,                  \* this.t, elapsed ticks
    sinceLastInstant,   \* this.lastInstant, held as (timestamp of the current
                        \* frame) - lastInstant, or Null
    resolve,            \* this.resolve: the number of the start() call whose
                        \* promise it resolves, 0 for null
    regimeBoundaries,   \* this.regimeBoundaries
    points,             \* this.points
    subscribers,        \* this.subscribers, in registration order
    \* the environment
    scheduled,          \* callbacks given to requestAnimationFrame for the next frame
    firing,             \* callbacks of the current frame that have not run yet
    resolveCalls,       \* per start() call, how often its resolver was called
    \* history
    schedule,           \* boundaries as returned by the last compilation installed
    delivered,          \* notifications delivered since that installation
    maxStep,            \* largest advance of t by one update since that installation
    startedSinceInstall,\* start() was called since that installation
    calls,              \* number of calls made by the application so far
    attempt,            \* the last setInstructions call: its argument, its throw
                        \* and its number among the calls (0: the constructor's)
    pausedAt,           \* t at the last pause(), until start() or the second
                        \* update after the next resume(); else Null
    justStarted,        \* start() was called and no update has run since
    notifiedInFrame,    \* boundaries notified by the updates of the last frame
    \* calls of the pure functions (specification PureSpec)
    fnInput,
    fnOutput

pacer == <<running, t, sinceLastInstant, resolve, regimeBoundaries, points, subscribers>>
env   == <<scheduled, firing, resolveCalls>>
hist  == <<schedule, delivered, maxStep, startedSinceInstall, attempt, pausedAt,
           justStarted, notifiedInFrame>>
pure  == <<fnInput, fnOutput>>
vars  == <<pacer, env, hist, calls, pure>>

\* No call of a pure function is under way, or one is and has not returned.
Idle == [fn |-> "none"]
Pending == [done |-> FALSE]

Max(a, b) == IF a >= b THEN a ELSE b

-----------------------------------------------------------------------------
(* BreathPacer *)

\* constructor(canvas, instructions, cfg): the field initializers, then
\* setInstructions(instructions) and requestUpdate(), each of which requests a
\* frame.  A constructor that throws constructs nothing.
Constructed(regimes, result) ==
        /\ result.error = NoError /\ ~result.diverged
        /\ running = FALSE
        /\ t = 0
        /\ sinceLastInstant = Null
        /\ resolve = 0
        /\ regimeBoundaries = result.boundaries
        /\ points = result.points
        /\ subscribers = <<>>
        /\ scheduled = 2
        /\ firing = 0
        /\ resolveCalls = <<>>
        /\ schedule = result.boundaries
        /\ delivered = <<>>
        /\ maxStep = 0
        /\ startedSinceInstall = FALSE
        /\ calls = 0
        /\ attempt = [regimes |-> regimes, error |-> NoError, call |-> 0]
        /\ pausedAt = Null
        /\ justStarted = FALSE
        /\ notifiedInFrame = 0

Init ==
    /\ \E c \in Compilations : Constructed(c.regimes, c.result)
    /\ fnInput = Idle
    /\ fnOutput = Pending

\* The application calls the pacer from event handlers: they run between
\* frames, never between two callbacks of one frame.
Call ==
    /\ firing = 0
    /\ calls < MaxCalls
    /\ calls' = calls + 1

\* setInstructions(regimes): regimesToInstructions throws before any field is
\* assigned and before requestUpdate().
\* Mutant of InstallOrThrow: the fields are emptied before the compilation, so
\* a throw leaves the pacer with the sentinel track.
InstallOrThrowEmptying(regimes, result) ==
    /\ ~result.diverged
    /\ attempt' = [regimes |-> regimes, error |-> result.error, call |-> calls + 1]
    /\ regimeBoundaries' = result.boundaries
    /\ points' = IF result.error # NoError THEN <<[t |-> 0, h |-> 0]>> ELSE result.points
    /\ scheduled' = IF result.error # NoError THEN scheduled ELSE scheduled + 1
    /\ schedule' = result.boundaries
    /\ delivered' = <<>>
    /\ maxStep' = 0
    /\ startedSinceInstall' = FALSE
    /\ UNCHANGED <<running, t, sinceLastInstant, resolve, subscribers,
                   firing, resolveCalls, pausedAt, justStarted,
                   notifiedInFrame>>

\* Mutant of InstallOrThrow: installing a track rewinds the clock.
InstallOrThrowRewinding(regimes, result) ==
    /\ ~result.diverged
    /\ attempt' = [regimes |-> regimes, error |-> result.error, call |-> calls + 1]
    /\ IF result.error # NoError
       THEN UNCHANGED <<pacer, env, schedule, delivered, maxStep,
                        startedSinceInstall, pausedAt, justStarted,
                   notifiedInFrame>>
       ELSE /\ regimeBoundaries' = result.boundaries
            /\ points' = result.points
            /\ t' = 0
            /\ scheduled' = scheduled + 1
            /\ schedule' = result.boundaries
            /\ delivered' = <<>>
            /\ maxStep' = 0
            /\ startedSinceInstall' = FALSE
            /\ UNCHANGED <<running, sinceLastInstant, resolve, subscribers,
                           firing, resolveCalls, pausedAt, justStarted,
                   notifiedInFrame>>

InstallOrThrow(regimes, result) ==
    /\ ~result.diverged
    /\ attempt' = [regimes |-> regimes, error |-> result.error, call |-> calls + 1]
    /\ IF result.error # NoError
       THEN UNCHANGED <<pacer, env, schedule, delivered, maxStep,
                        startedSinceInstall, pausedAt, justStarted,
                   notifiedInFrame>>
       ELSE /\ regimeBoundaries' = result.boundaries
            /\ points' = result.points
            /\ scheduled' = scheduled + 1
            /\ schedule' = result.boundaries
            /\ delivered' = <<>>
            /\ maxStep' = 0
            /\ startedSinceInstall' = FALSE
            /\ UNCHANGED <<running, t, sinceLastInstant, resolve, subscribers,
                           firing, resolveCalls, pausedAt, justStarted,
                   notifiedInFrame>>

setInstructionsFrom(lists) ==
    /\ Call
    /\ \E c \in Compilations :
           c.regimes \in lists /\ InstallOrThrow(c.regimes, c.result)
    /\ UNCHANGED pure

setInstructions == setInstructionsFrom(ValidLists)

setInstructionsAny == setInstructionsFrom(ValidLists \cup InvalidLists)

\* setConfig(cfg): the configuration only affects drawing; requestUpdate().
setConfig ==
    /\ Call
    /\ scheduled' = scheduled + 1
    /\ UNCHANGED <<pacer, firing, resolveCalls, hist, pure>>

\* subscribeToRegimeChanges(callbackFn): subscribers are numbered as they come.
subscribeToRegimeChanges ==
    /\ Call
    /\ subscribers' = Append(subscribers, Len(subscribers) + 1)
    /\ UNCHANGED <<running, t, sinceLastInstant, resolve, regimeBoundaries, points,
                   env, hist, pure>>

\* resume()
resume ==
    /\ Call
    /\ running' = TRUE
    /\ sinceLastInstant' = Null
    /\ scheduled' = scheduled + 1
    /\ UNCHANGED <<t, resolve, regimeBoundaries, points, subscribers,
                   firing, resolveCalls, hist, pure>>

\* pause()
pause ==
    /\ Call
    /\ running' = FALSE
    /\ sinceLastInstant' = Null
    /\ pausedAt' = t
    /\ UNCHANGED <<t, resolve, regimeBoundaries, points, subscribers, env,
                   schedule, delivered, maxStep, startedSinceInstall,
                   attempt, justStarted, notifiedInFrame, pure>>

\* start(): this.t = 0; this.resume(); return new Promise(resolve => this.resolve = resolve)
start ==
    /\ Call
    /\ t' = 0
    /\ running' = TRUE
    /\ sinceLastInstant' = Null
    /\ scheduled' = scheduled + 1
    /\ resolve' = Len(resolveCalls) + 1
    /\ resolveCalls' = Append(resolveCalls, 0)
    /\ startedSinceInstall' = TRUE
    /\ pausedAt' = Null
    /\ justStarted' = TRUE
    /\ UNCHANGED <<regimeBoundaries, points, subscribers, firing,
                   schedule, delivered, maxStep, attempt, notifiedInFrame, pure>>

\* The browser begins a frame d ms after the last one: every callback requested
\* so far will run with the frame's timestamp.
Frame ==
    /\ firing = 0
    /\ \E d \in FrameDeltasMs :
           sinceLastInstant' = IF sinceLastInstant = Null THEN Null
                               ELSE sinceLastInstant + d * TicksPerMs
    /\ firing' = scheduled
    /\ scheduled' = 0
    /\ notifiedInFrame' = 0
    /\ UNCHANGED <<running, t, resolve, regimeBoundaries, points, subscribers,
                   resolveCalls, schedule, delivered, maxStep,
                   startedSinceInstall, attempt, pausedAt, justStarted,
                   calls, pure>>

\* Mutant of Crossing: the last boundary of the queue is never taken.
CrossingButLast(curTime) ==
    /\ running
    /\ Len(regimeBoundaries) > 1
    /\ curTime >= regimeBoundaries[1].boundary

\* Mutant of Crossing: the boundary is taken whatever the time.
CrossingAnyTime(curTime) ==
    /\ running
    /\ Len(regimeBoundaries) > 0

\* Mutant of Crossing: without "if (!this.running) return".
CrossingWhileStopped(curTime) ==
    /\ Len(regimeBoundaries) > 0
    /\ curTime >= regimeBoundaries[1].boundary

\* notify(curTime), called by update: whether a boundary is shifted off the queue
Crossing(curTime) ==
    /\ running
    /\ Len(regimeBoundaries) > 0
    /\ curTime >= regimeBoundaries[1].boundary

\* Mutant of AfterShift: every boundary that curTime has passed is dropped.
AfterShiftSkipping(curTime) ==
    SelectSeq(regimeBoundaries, LAMBDA b : b.boundary > curTime)

\* notify: "this.regimeBoundaries.shift()", what is left of the queue
AfterShift(curTime) == Tail(regimeBoundaries)

\* Mutant of Notification: the subscribers are given the time of the boundary.
NotificationAtBoundary(curTime) ==
    [changeTime |-> regimeBoundaries[1].boundary,
     regime     |-> regimeBoundaries[1].regime,
     boundary   |-> regimeBoundaries[1].boundary,
     called     |-> subscribers]

\* notify: "this.subscribers.forEach(subCallback => subCallback(curTime,
\* nextRegime.regime))": the arguments, the boundary shifted off and the
\* subscribers called, in order.
Notification(curTime) ==
    [changeTime |-> curTime,
     regime     |-> regimeBoundaries[1].regime,
     boundary   |-> regimeBoundaries[1].boundary,
     called     |-> subscribers]

\* Mutant of Advance: the first update after resume() charges a millisecond.
AdvanceChargingFirst ==
    IF running
    THEN (IF sinceLastInstant # Null THEN sinceLastInstant ELSE TicksPerMs)
    ELSE 0

\* update(instant): what is added to this.t.
\*   if (this.running) { if (this.lastInstant !== null) { this.t += instant - this.lastInstant } }
Advance == IF running /\ sinceLastInstant # Null THEN sinceLastInstant ELSE 0

\* update(instant): one callback of the current frame.  The drawing and the
\* audio cues (lastH, lastT, lastSlope) do not act on the state modelled here.
update ==
    /\ firing > 0
    /\ LET advance  == Advance
           curTime  == t + advance
           beyond   == curTime > Last(points).t
       IN
       /\ t' = curTime
       /\ maxStep' = Max(maxStep, advance)
       \* notify(this.t)
       /\ IF Crossing(curTime)
          THEN /\ regimeBoundaries' = AfterShift(curTime)
               /\ delivered' = Append(delivered, Notification(curTime))
               /\ notifiedInFrame' = notifiedInFrame + 1
          ELSE UNCHANGED <<regimeBoundaries, delivered, notifiedInFrame>>
       \* continue (requestUpdate) or stop (pause, resolve)
       /\ IF running /\ ~beyond
          THEN /\ scheduled' = scheduled + 1
               /\ sinceLastInstant' = 0
               /\ pausedAt' = IF sinceLastInstant # Null THEN Null ELSE pausedAt
               /\ UNCHANGED <<running, resolveCalls>>
          ELSE IF running
          THEN /\ running' = FALSE
               /\ sinceLastInstant' = Null
               /\ pausedAt' = curTime
               /\ resolveCalls' =
                      IF resolve = 0 THEN resolveCalls
                      ELSE [resolveCalls EXCEPT ![resolve] = @ + 1]
               /\ UNCHANGED scheduled
          ELSE UNCHANGED <<running, sinceLastInstant, pausedAt, resolveCalls, scheduled>>
    /\ firing' = firing - 1
    /\ justStarted' = FALSE
    /\ UNCHANGED <<resolve, points, subscribers, schedule, startedSinceInstall,
                   attempt, calls, pure>>

Next ==
    \/ setInstructions
    \/ setConfig
    \/ subscribeToRegimeChanges
    \/ resume
    \/ pause
    \/ start
    \/ Frame
    \/ update

Spec == Init /\ [][Next]_vars


\* The pacer with setInstructions also given the lists that do not compile.
NextAny ==
    \/ setInstructionsAny
    \/ resume
    \/ pause
    \/ start
    \/ Frame
    \/ update

AnySpec == Init /\ [][NextAny]_vars

\* What the browser guarantees: a frame comes, and its callbacks run.  What the
\* claims about completion assume of the application: a paused pacer is
\* resumed.
FairSpec ==
    /\ Spec
    /\ WF_vars(Frame)
    /\ WF_vars(update)
    /\ WF_vars(resume /\ ~running)

-----------------------------------------------------------------------------
(* guideHeight *)

\* Number.POSITIVE_INFINITY, the time of the right point past the track
PositiveInfinity == -1

\* what a division by a zero time difference leads to
NotANumber == [num |-> 0, den |-> 0]

\* "find nearest points enclosing t horizontally"
RECURSIVE EnclosingFrom(_, _, _)
EnclosingFrom(ps, time, index) ==
    IF index > Len(ps) - 1
    THEN <<Last(ps), [Last(ps) EXCEPT !.t = PositiveInfinity]>>
    ELSE IF ps[index].t <= time /\ time <= ps[index + 1].t
         THEN <<ps[index], ps[index + 1]>>
         ELSE EnclosingFrom(ps, time, index + 1)

Enclosing(ps, time) == EnclosingFrom(ps, time, 1)

\* m = (right.h - left.h) / (right.t - left.t), as a fraction; a finite
\* difference divided by Infinity is 0
Slope(left, right) ==
    IF right.t = PositiveInfinity
    THEN [num |-> 0, den |-> 1]
    ELSE [num |-> right.h - left.h, den |-> right.t - left.t]

\* Mutant of Intercept: the line is taken through (0, left.h).
InterceptAtOrigin(m, left) ==
    [num |-> left.h * m.den, den |-> m.den]

\* b = -m*left.t + left.h
Intercept(m, left) ==
    [num |-> (-m.num) * left.t + left.h * m.den, den |-> m.den]

\* m*t + b, as a fraction; with a zero time difference m is infinite or
\* 0/0 and the sum is not a number
LineAt(m, b, time) ==
    IF m.den = 0
    THEN NotANumber
    ELSE [num |-> m.num * time + b.num, den |-> m.den]

guideHeightOn(pair, time) ==
    LineAt(Slope(pair[1], pair[2]),
           Intercept(Slope(pair[1], pair[2]), pair[1]), time)

guideHeight(ps, time) == guideHeightOn(Enclosing(ps, time), time)

-----------------------------------------------------------------------------
(* The pure functions, applied to inputs drawn from bounded sets *)

ValidateDurationsMs ==
    {-15, 0, 9900, 9999, 10000, 10001, 11999, 12000, 15000, 19999, 20000,
     29999, 30000, 30001, 59999, 60000, 60001}

ValidateInputs ==
    { [fn |-> "validateRegime", regime |-> Regime(d, bpm, hold, FALSE)] :
          d \in ValidateDurationsMs,
          bpm \in (MinBreathsPerMinute - 2) .. (MaxBreathsPerMinute + 2),
          hold \in {NoHold, "postInhale"} }

\* Rates at which msPerBreath and baseSegmentDur are whole numbers of ticks.
CompileRates == {5, 6, 10, 12, 20, 30, 60}

CompileRegimes ==
    { Regime(d, bpm, hold, rand) :
          d \in {10000, 15000}, bpm \in CompileRates,
          hold \in HoldPositions, rand \in BOOLEAN }

CompileLists ==
    { <<r>> : r \in CompileRegimes }
        \cup ValidLists \cup InvalidLists
        \cup { <<HoldRandom, Regime(15000, 12, "postInhale", TRUE)>>,
               <<PlainTen, HoldRandom, PlainSix>>,
               <<Regime(60000, 3, "postInhale", FALSE)>>,
               <<TooShort, PlainTen>>, <<TooSlow, TooShort>> }

CompileOracles ==
    [outcomes : [1..MaxDraws -> RandSamples], rangeOver : BOOLEAN, sumUnder : BOOLEAN]

CompileInputs ==
    { [fn |-> "regimesToInstructions", regimes |-> l, rnd |-> o] :
          l \in CompileLists, o \in CompileOracles }

Point(ms, h) == [t |-> ms * TicksPerMs, h |-> h]

\* The lists of playback and two lists of one fast randomized regime.
GuideLists ==
    ValidLists \cup { <<Regime(10000, 30, NoHold, TRUE)>>,
                      <<Regime(10000, 60, NoHold, TRUE)>> }

\* The tracks that regimesToInstructions returns for these lists.
CompiledTracks ==
    { x.points :
          x \in { y \in { regimesToInstructions(l, o) :
                              l \in GuideLists, o \in CompileOracles } :
                      y.error = NoError /\ ~y.diverged } }

\* Tracks by hand (the last one repeats a time) and compiled tracks.
GuideTracks ==
    { <<Point(0, 0)>>,
      <<Point(0, 0), Point(49, 1)>>,
      <<Point(0, 0), Point(3000, 1), Point(6000, 0)>>,
      <<Point(0, 0), Point(2000, 1), Point(4000, 1), Point(6000, 0)>>,
      <<Point(0, 0), Point(0, 1), Point(3000, 0)>> }
        \cup CompiledTracks

\* Time 0, every vertex, a time inside every segment, times past the track.
GuideTimes(ps) ==
    {0} \cup { ps[i].t : i \in 1..Len(ps) }
        \cup { (ps[i].t + ps[i + 1].t) \div 2 : i \in 1..(Len(ps) - 1) }
        \cup { (ps[i].t + 2 * ps[i + 1].t) \div 3 : i \in 1..(Len(ps) - 1) }
        \cup { Last(ps).t + 1, Last(ps).t + 3000 }

GuideInputs ==
    UNION { { [fn |-> "guideHeight", points |-> ps, t |-> time] :
                  time \in GuideTimes(ps) } :
            ps \in GuideTracks }

PureInit ==
    /\ Constructed(<<>>, regimesToInstructions(<<>>, CHOOSE o \in CompileOracles : TRUE))
    /\ fnInput \in ValidateInputs \cup CompileInputs \cup GuideInputs
    /\ fnOutput = Pending

validateRegimeCall ==
    /\ ~fnOutput.done
    /\ fnInput.fn = "validateRegime"
    /\ fnOutput' = [done |-> TRUE, thrown |-> validateRegime(fnInput.regime)]
    /\ UNCHANGED <<pacer, env, hist, calls, fnInput>>

regimesToInstructionsCall ==
    /\ ~fnOutput.done
    /\ fnInput.fn = "regimesToInstructions"
    /\ fnOutput' = [done |-> TRUE,
                    result |-> regimesToInstructions(fnInput.regimes, fnInput.rnd)]
    /\ UNCHANGED <<pacer, env, hist, calls, fnInput>>

guideHeightCall ==
    /\ ~fnOutput.done
    /\ fnInput.fn = "guideHeight"
    /\ fnOutput' = [done |-> TRUE,
                    result |-> guideHeight(fnInput.points, fnInput.t)]
    /\ UNCHANGED <<pacer, env, hist, calls, fnInput>>

PureNext ==
    \/ validateRegimeCall
    \/ regimesToInstructionsCall
    \/ guideHeightCall

PureSpec == PureInit /\ [][PureNext]_vars


-----------------------------------------------------------------------------
(* Playback: start, completion, notification, pause *)

\* A step that is a call of start(): a promise is created.
StartStep == Len(resolveCalls') = Len(resolveCalls) + 1

\* How often the resolver of the k-th start() call was called.
ResolverCalls(k) == IF k <= Len(resolveCalls) THEN resolveCalls[k] ELSE 0

\* C1: every call of start() that begins a further run (start() was called
\* before) sets elapsed to 0 and makes every boundary of the compiled schedule
\* pending again.
C1_StartRearmsQueue ==
    [][(StartStep /\ resolve # 0) => (t' = 0 /\ regimeBoundaries' = schedule')]_vars

\* C2: for each call of start(), the completion resolver is called at most
\* once, whatever frames, pause() and resume() calls follow.
C2_ResolverCalledOnce ==
    \A k \in 1..Len(resolveCalls) : resolveCalls[k] <= 1

\* The application paused the pacer before the current promise was resolved.
PausedByApplication ==
    /\ ~running
    /\ resolve # 0
    /\ ResolverCalls(resolve) = 0

\* C3: given that frames keep coming and that the pacer does not stay paused
\* for ever, the promise of every start() call is eventually resolved.
C3_EveryStartResolved ==
    \/ <>[]PausedByApplication
    \/ \A k \in 1..MaxCalls :
           [](Len(resolveCalls) >= k => <>(ResolverCalls(k) >= 1))

\* The realized duration of the k-th regime of the installed schedule.
RealizedEnd(k) ==
    IF k < Len(schedule) THEN schedule[k + 1].boundary ELSE Last(points).t

Realized(k) == RealizedEnd(k) - schedule[k].boundary

\* Every update since the installation advanced t by less than every
\* regime's realized duration.
ShortSteps == \A k \in 1..Len(schedule) : maxStep < Realized(k)

\* Playback was started after the installation and has completed since the
\* last start().
CompletedAfterStart ==
    /\ startedSinceInstall
    /\ resolve # 0
    /\ ResolverCalls(resolve) >= 1

\* C4: when playback started after an installation completes, and every
\* update advanced t by less than every regime's realized duration, one
\* notification has been delivered per regime of the installed list.
C4_OneNotificationPerRegime ==
    (CompletedAfterStart /\ ShortSteps) => Len(delivered) = Len(schedule)

C4_Witness ==
    /\ CompletedAfterStart
    /\ ShortSteps
    /\ Len(schedule) = 2
    /\ Len(delivered) = 2
    /\ \A k \in 1..2 : delivered[k].called # <<>>

RECURSIVE RequestedBefore(_)
\* The sum of the requested durations of the regimes before the k-th, in ticks.
RequestedBefore(k) ==
    IF k <= 1 THEN 0
    ELSE RequestedBefore(k - 1) + schedule[k - 1].regime.durationMs * TicksPerMs

C6_PausedTimeNotCounted ==
    pausedAt # Null => t = pausedAt

\* resumed after a pause at e > 0, and the first update after resume() has run
C6_Witness ==
    /\ pausedAt # Null
    /\ pausedAt > 0
    /\ running
    /\ sinceLastInstant # Null
    /\ t <= Last(points).t


-----------------------------------------------------------------------------
(* Validation and compilation *)

ValidateDone == fnInput.fn = "validateRegime" /\ fnOutput.done

CompileDone == fnInput.fn = "regimesToInstructions" /\ fnOutput.done

\* C7: a regime with fewer than 2 or more than 60 breaths per minute is
\* refused, whatever its duration, and the refusal names the rate bound.
C7_RateBoundsRefused ==
    (/\ ValidateDone
     /\ \/ fnInput.regime.breathsPerMinute < 2
        \/ fnInput.regime.breathsPerMinute > 60)
        => fnOutput.thrown \in {ErrMinBpm, ErrMaxBpm}

\* C8: a regime with 2 to 60 breaths per minute is refused exactly when its
\* duration is below 10000 ms or below 60000 / breathsPerMinute ms.
C8_DurationRule ==
    (/\ ValidateDone
     /\ fnInput.regime.breathsPerMinute >= 2
     /\ fnInput.regime.breathsPerMinute <= 60)
        => (fnOutput.thrown # NoError
               <=> \/ fnInput.regime.durationMs < 10000
                   \/ fnInput.regime.durationMs * fnInput.regime.breathsPerMinute < 60000)

\* a regime of exactly 10000 ms, at a rate in range, accepted
C8_Witness ==
    /\ ValidateDone
    /\ fnInput.regime.breathsPerMinute = 6
    /\ fnInput.regime.durationMs = 10000
    /\ fnOutput.thrown = NoError

\* Some regime of the list is refused by validateRegime.
HasInvalid(regimes) ==
    \E i \in 1..Len(regimes) : validateRegime(regimes[i]) # NoError

\* C9: setInstructions throws exactly when some regime of the list is
\* invalid, at whatever place, and a call that throws leaves the track, the
\* boundary queue, elapsed and the running flag as they were.
C9_AllOrNothing ==
    [][attempt' # attempt =>
          /\ attempt'.error # NoError <=> HasInvalid(attempt'.regimes)
          /\ attempt'.error # NoError =>
                 UNCHANGED <<points, regimeBoundaries, t, running>>]_vars

\* a list whose first regime is valid and a later one is not was refused
\* while the pacer was running on a track with breaths
C9_Witness ==
    /\ attempt.error # NoError
    /\ Len(attempt.regimes) >= 2
    /\ validateRegime(attempt.regimes[1]) = NoError
    /\ running
    /\ t > 0
    /\ Len(points) > 1
    /\ Len(regimeBoundaries) > 0

\* The heights of one breath of regime r, in order.
BreathHeights(r) ==
    IF r.holdPos = "postInhale" THEN <<1, 1, 0>>
    ELSE IF r.holdPos = "postExhale" THEN <<1, 0, 0>>
    ELSE <<1, 0>>

\* The points pushed for the i-th regime are whole breaths.
WholeBreaths(result, r, i) ==
    LET first == result.parts[i].first
        last  == result.parts[i].last
        hs    == BreathHeights(r)
    IN  /\ last >= first
        /\ (last - first + 1) % Len(hs) = 0
        /\ \A j \in first..last :
               result.points[j].h = hs[((j - first) % Len(hs)) + 1]

\* The realized duration of the part of the track of the i-th regime.
PartDuration(result, i) ==
    result.points[result.parts[i].last].t - result.points[result.parts[i].first - 1].t

CompiledAlone ==
    /\ CompileDone
    /\ Len(fnInput.regimes) = 1
    /\ fnOutput.result.error = NoError
    /\ ~fnOutput.result.diverged

\* ceil(durationMs / msPerBreath), msPerBreath = 60000 / breathsPerMinute
CeilBreaths(r) == (r.durationMs * r.breathsPerMinute + 59999) \div 60000

\* C11: the track of one valid regime lasts at most
\* ceil(durationMs / msPerBreath) * msPerBreath when the regime is not
\* randomized and ceil(durationMs / msPerBreath) * (msPerBreath + 2000) when
\* it is, whatever Math.random() returns.
C11_DurationUpperBound ==
    CompiledAlone =>
        Last(fnOutput.result.points).t * fnInput.regimes[1].breathsPerMinute
            <= CeilBreaths(fnInput.regimes[1])
                 * (60000 * TicksPerMs
                      + IF fnInput.regimes[1].randomize
                        THEN 2000 * TicksPerMs * fnInput.regimes[1].breathsPerMinute
                        ELSE 0)

\* A non-empty list of valid regimes has been compiled and its loops have ended.
CompiledList ==
    /\ CompileDone
    /\ Len(fnInput.regimes) >= 1
    /\ fnOutput.result.error = NoError
    /\ ~fnOutput.result.diverged

\* The sum of the requested durationMs of the first k regimes of the list.
RECURSIVE SumRequested(_, _)
SumRequested(regimes, k) ==
    IF k = 0 THEN 0 ELSE SumRequested(regimes, k - 1) + regimes[k].durationMs

C13_BoundaryPerRegime ==
    CompiledList =>
        /\ Len(fnOutput.result.boundaries) = Len(fnInput.regimes)
        /\ \A i \in 1..Len(fnInput.regimes) :
               fnOutput.result.boundaries[i].regime = fnInput.regimes[i]

\* two different regimes compiled, the first lasting longer than requested
C13_Witness ==
    /\ CompiledList
    /\ Len(fnInput.regimes) >= 2
    /\ fnInput.regimes[1] # fnInput.regimes[2]
    /\ fnOutput.result.boundaries[2].boundary
           > fnInput.regimes[1].durationMs * TicksPerMs
    /\ fnOutput.result.boundaries[1].regime.durationMs = fnInput.regimes[1].durationMs

\* The points after the first at which h rises, falls, or stays as it was.
Rises(ps) == { j \in 2..Len(ps) : ps[j - 1].h = 0 /\ ps[j].h = 1 }

Falls(ps) == { j \in 2..Len(ps) : ps[j - 1].h = 1 /\ ps[j].h = 0 }

Flats(ps) == { j \in 2..Len(ps) : ps[j - 1].h = ps[j].h }

\* C14: the track of one valid regime is the point {t: 0, h: 0} followed by
\* whole breaths, each an inhale point (h = 1), a hold point (h = 1) only
\* with holdPos postInhale, an exhale point (h = 0), and a hold point
\* (h = 0) only with holdPos postExhale; so the second point is an inhale, the
\* last point has h = 0, and there are as many inhales as exhales and, with a
\* hold configured, as holds.
C14_WholeBreathsAfterSentinel ==
    CompiledAlone =>
        /\ fnOutput.result.points[1] = [t |-> 0, h |-> 0]
        /\ fnOutput.result.parts[1].first = 2
        /\ fnOutput.result.parts[1].last = Len(fnOutput.result.points)
        /\ WholeBreaths(fnOutput.result, fnInput.regimes[1], 1)
        /\ fnOutput.result.points[2].h = 1
        /\ Last(fnOutput.result.points).h = 0
        /\ Cardinality(Rises(fnOutput.result.points))
               = Cardinality(Falls(fnOutput.result.points))
        /\ Cardinality(Flats(fnOutput.result.points))
               = IF fnInput.regimes[1].holdPos = NoHold THEN 0
                 ELSE Cardinality(Rises(fnOutput.result.points))

\* a randomized regime holding after the inhale, compiled to several breaths
C14_Witness ==
    /\ CompiledAlone
    /\ fnInput.regimes[1].holdPos = "postInhale"
    /\ fnInput.regimes[1].randomize
    /\ Cardinality(Rises(fnOutput.result.points)) >= 2
    /\ Cardinality(Flats(fnOutput.result.points)) >= 2

\* The duration of the segment that ends at the j-th point, in ticks.
SegmentAt(ps, j) == ps[j].t - ps[j - 1].t

\* 3 with a hold, 2 without, as the claims state it.
SegmentsOf(r) == IF r.holdPos = NoHold THEN 2 ELSE 3

Deviation(r, d) == d * SegmentsOf(r) * r.breathsPerMinute - 60000 * TicksPerMs

C17_WithinOneBreath ==
    (CompiledAlone /\ fnInput.regimes[1].randomize) =>
        /\ (Last(fnOutput.result.points).t - fnInput.regimes[1].durationMs * TicksPerMs)
               * fnInput.regimes[1].breathsPerMinute <= 60000 * TicksPerMs
        /\ (fnInput.regimes[1].durationMs * TicksPerMs - Last(fnOutput.result.points).t)
               * fnInput.regimes[1].breathsPerMinute <= 60000 * TicksPerMs

\* The list compiled is the given one and the compiler has returned.
Compiled(regimes) ==
    /\ CompileDone
    /\ fnInput.regimes = regimes
    /\ fnOutput.result.error = NoError

\* {t, h} with t in ms
\* C18, as claimed: {durationMs: 10000, breathsPerMinute: 10, randomize:
\* false} without hold compiles to one breath, the track
\* [{0,0}, {3000,1}, {6000,0}].
C18_OneBreath ==
    Compiled(<<Regime(10000, 10, NoHold, FALSE)>>) =>
        fnOutput.result.points = <<Point(0, 0), Point(3000, 1), Point(6000, 0)>>

\* C18, amended: that regime compiles to two breaths, the track
\* [{0,0}, {3000,1}, {6000,0}, {9000,1}, {12000,0}].
C18_TwoBreaths ==
    Compiled(<<Regime(10000, 10, NoHold, FALSE)>>) =>
        fnOutput.result.points =
            <<Point(0, 0), Point(3000, 1), Point(6000, 0), Point(9000, 1), Point(12000, 0)>>

\* that regime has been compiled
C18_Witness ==
    /\ Compiled(<<Regime(10000, 10, NoHold, FALSE)>>)
    /\ Len(fnOutput.result.points) > 1

\* The boundaries returned, as times in ticks.
BoundaryTimes ==
    [i \in 1..Len(fnOutput.result.boundaries) |-> fnOutput.result.boundaries[i].boundary]

\* C19, as claimed: the regimes {10000 ms, 10 per minute} and {10000 ms, 6
\* per minute}, not randomized, compile to two boundaries, at 0 and at 6000.
C19_SecondBoundaryAt6000 ==
    Compiled(<<Regime(10000, 10, NoHold, FALSE), Regime(10000, 6, NoHold, FALSE)>>) =>
        BoundaryTimes = <<0, 6000 * TicksPerMs>>

\* C19, amended: they compile to two boundaries, at 0 and at 12000, the
\* realized end of the first regime's part of the track, not 10000.
C19_SecondBoundaryAt12000 ==
    Compiled(<<Regime(10000, 10, NoHold, FALSE), Regime(10000, 6, NoHold, FALSE)>>) =>
        /\ BoundaryTimes = <<0, 12000 * TicksPerMs>>
        /\ fnOutput.result.points[fnOutput.result.parts[1].last].t = 12000 * TicksPerMs

\* the two regimes have been compiled
C19_Witness ==
    /\ Compiled(<<Regime(10000, 10, NoHold, FALSE), Regime(10000, 6, NoHold, FALSE)>>)
    /\ Len(fnOutput.result.boundaries) = 2

\* C20: pause() on a pacer that is not running and resume() on a pacer that
\* is running leave elapsed, the running flag, the last-sample baseline and
\* the boundary queue as they were.
C20_RedundantCallsNoOp ==
    [][((pause /\ ~running) \/ (resume /\ running)) =>
          UNCHANGED <<t, running, sinceLastInstant, regimeBoundaries>>]_vars

\* A step that runs one update callback.
UpdateStep == firing' = firing - 1

\* C21: when an update shifts a boundary off the queue, the same update calls
\* every subscriber registered so far, in registration order, with the
\* elapsed time of that update (after its advance) and the requested regime
\* of that boundary, whether or not the update goes on to end the run.
C21_SubscribersCalledInUpdate ==
    [][(UpdateStep /\ regimeBoundaries' # regimeBoundaries) =>
          /\ regimeBoundaries' = Tail(regimeBoundaries)
          /\ t' = t + (IF sinceLastInstant # Null THEN sinceLastInstant ELSE 0)
          /\ delivered' = Append(delivered,
                 [changeTime |-> t',
                  regime     |-> regimeBoundaries[1].regime,
                  boundary   |-> regimeBoundaries[1].boundary,
                  called     |-> [i \in 1..Len(subscribers) |-> i]])]_vars

\* two subscribers were notified, at a later boundary, by the update that
\* ended the run
C21_Witness ==
    /\ ~running
    /\ resolve # 0
    /\ ResolverCalls(resolve) >= 1
    /\ Len(delivered) >= 2
    /\ Len(Last(delivered).called) >= 2
    /\ Last(delivered).changeTime > Last(delivered).boundary
    /\ Last(delivered).boundary > 0
    /\ pausedAt = Last(delivered).changeTime

\* C22: with a schedule installed, the first update after start() delivers
\* the first notification of the run: change time 0 and the first regime
\* submitted.
C22_FirstNotificationAfterStart ==
    [][(UpdateStep /\ justStarted /\ running /\ Len(schedule) > 0) =>
          /\ Len(delivered') = Len(delivered) + 1
          /\ Last(delivered').changeTime = 0
          /\ Last(delivered').regime = schedule[1].regime]_vars

\* C23, as claimed: a boundary that elapsed had already passed when an
\* earlier pending boundary was notified is skipped: it is never notified.
C23_SkippedNeverDelivered ==
    \A k \in 1..(Len(delivered) - 1) :
        delivered[k + 1].boundary > delivered[k].changeTime

\* C23, amended: when elapsed has passed more than one pending boundary in an
\* update of a running pacer, that update shifts and notifies the earliest
\* only and the next stays pending; and every update of a running pacer that
\* finds the head of the queue passed notifies it: the boundaries passed are
\* notified late, one per update, in the order of the schedule.
C23_PassedBoundariesOnePerUpdate ==
    [][/\ (UpdateStep /\ running /\ Len(regimeBoundaries) >= 2
            /\ t' >= regimeBoundaries[2].boundary) =>
              /\ regimeBoundaries' = Tail(regimeBoundaries)
              /\ regimeBoundaries'[1].boundary <= t'
       /\ (UpdateStep /\ running /\ Len(regimeBoundaries) >= 1
            /\ t >= regimeBoundaries[1].boundary) =>
              /\ Len(delivered') = Len(delivered) + 1
              /\ Last(delivered').boundary = regimeBoundaries[1].boundary
              /\ Last(delivered').changeTime = t']_vars

\* a boundary after the first was notified by an update later than the one
\* in which elapsed passed it
C23_Witness ==
    \E k \in 1..(Len(delivered) - 1) :
        /\ delivered[k + 1].boundary > 0
        /\ delivered[k + 1].boundary <= delivered[k].changeTime
        /\ delivered[k + 1].changeTime > delivered[k].changeTime

\* C24: setInstructions with a valid list on a running pacer replaces the
\* track and the boundary queue by what the list compiles to and leaves
\* elapsed and the running flag as they were; elapsed goes back (to 0) only
\* in a call of start().
C24_InstallKeepsClock ==
    [][/\ (attempt'.call # attempt.call /\ attempt'.error = NoError /\ running) =>
              /\ \E c \in Compilations :
                     /\ c.regimes = attempt'.regimes
                     /\ points' = c.result.points
                     /\ regimeBoundaries' = c.result.boundaries
              /\ UNCHANGED <<t, running>>
       /\ t' < t => (StartStep /\ t' = 0)]_vars

\* a list of two regimes has just been installed on a pacer running at an
\* elapsed time past its second boundary
C24_Witness ==
    /\ running
    /\ attempt.call > 0
    /\ attempt.error = NoError
    /\ Len(schedule) = 2
    /\ regimeBoundaries = schedule
    /\ delivered = <<>>
    /\ t > schedule[2].boundary

\* C25: the empty regime list compiles to the sentinel point alone with an
\* empty boundary schedule, and the first update after start() on such a
\* track stops the pacer and calls the resolver of that start().
C25_EmptyTrackCompletesAtFirstUpdate ==
    [][/\ (attempt'.call # attempt.call /\ attempt'.error = NoError
                /\ attempt'.regimes = <<>>) =>
              /\ points' = <<Point(0, 0)>>
              /\ regimeBoundaries' = <<>>
       /\ (UpdateStep /\ justStarted /\ running /\ points = <<Point(0, 0)>>) =>
              /\ ~running'
              /\ resolveCalls'[resolve] = resolveCalls[resolve] + 1]_vars

-----------------------------------------------------------------------------
(* Interpolation *)

GuideDone == fnInput.fn = "guideHeight" /\ fnOutput.done

StrictlyIncreasing(ps) == \A i \in 1..(Len(ps) - 1) : ps[i].t < ps[i + 1].t

\* The fraction out.num / out.den is the piecewise-linear reference at time:
\* left.h + (right.h - left.h) * (time - left.t) / (right.t - left.t) for
\* every pair of neighbours that encloses time, the height of the vertex at
\* a vertex, the height of the last point past the track.
IsReference(out, ps, time) ==
    /\ out.den > 0
    /\ \A i \in 1..(Len(ps) - 1) :
           (ps[i].t <= time /\ time <= ps[i + 1].t) =>
               out.num * (ps[i + 1].t - ps[i].t) =
                   out.den * (ps[i].h * (ps[i + 1].t - ps[i].t)
                                 + (ps[i + 1].h - ps[i].h) * (time - ps[i].t))
    /\ \A i \in 1..Len(ps) : time = ps[i].t => out.num = out.den * ps[i].h
    /\ time > Last(ps).t => out.num = out.den * Last(ps).h

-----------------------------------------------------------------------------
(* Scheduling of update *)

\* C27: while the pacer is running at most one update callback is
\* outstanding: requested and waiting for the next frame, or fired by the
\* current frame and not yet run; so update runs at most once per frame.
C27_AtMostOneCallback == running => scheduled + firing <= 1

-----------------------------------------------------------------------------
(* Generation: progress, order of the points, boundaries under drift *)

\* The time at which the k-th breath generated for the i-th regime ends
\* (k = 0: the time at which the regime begins, startTime).
BreathEnd(result, i, k) ==
    result.points[result.parts[i].first - 1
                      + k * segmentsPerBreath(fnInput.regimes[i])].t

\* The number of breaths generated for the i-th regime.
BreathsOf(result, i) ==
    (result.parts[i].last - result.parts[i].first + 1)
        \div segmentsPerBreath(fnInput.regimes[i])

\* C28: for regimes that validateRegime accepts, whatever Math.random()
\* returns, every generated breath ends later than the breath before it, so
\* that totalTime grows with every pass of the loop and the loop ends.  (Of
\* a loop followed for MaxBreaths breaths only the breaths are judged.)
C28_EveryBreathAdvances ==
    (CompileDone /\ fnOutput.result.error = NoError) =>
        \A i \in 1..Len(fnOutput.result.parts) :
            \A k \in 1..BreathsOf(fnOutput.result, i) :
                BreathEnd(fnOutput.result, i, k)
                    > BreathEnd(fnOutput.result, i, k - 1)

\* C29: in a track compiled from regimes that validateRegime accepts,
\* whatever Math.random() returns, every point is later than the point
\* before it.
C29_PointTimesIncrease ==
    (CompileDone /\ fnOutput.result.error = NoError) =>
        StrictlyIncreasing(fnOutput.result.points)

-----------------------------------------------------------------------------
(* Updates: one boundary each, and updates of a pacer that is not running *)

\* C31: an execution of update pops and notifies at most one boundary,
\* however many pending boundaries elapsed has passed, and so at most one
\* boundary is notified in a frame.
C31_OneBoundaryPerFrame ==
    [][/\ UpdateStep =>
              /\ Len(regimeBoundaries') >= Len(regimeBoundaries) - 1
              /\ Len(delivered') <= Len(delivered) + 1
       /\ notifiedInFrame' <= 1]_vars

\* C32: an update that runs while the pacer is not running changes nothing
\* of playback: elapsed, lastInstant and the boundary queue stay as they
\* are, no subscriber is called, no resolver is called and no further update
\* is requested.
C32_StoppedUpdateIsNoOp ==
    [][(UpdateStep /\ ~running) =>
           /\ UNCHANGED <<running, t, sinceLastInstant, regimeBoundaries>>
           /\ delivered' = delivered
           /\ resolveCalls' = resolveCalls
           /\ scheduled' = scheduled]_vars

\* the pacer was started and paused before any update ran, and an update has
\* run since: boundary 0, which elapsed has reached, is still pending
C32_Witness ==
    /\ ~running
    /\ attempt.call = 0
    /\ startedSinceInstall
    /\ ~justStarted
    /\ pausedAt = 0
    /\ t = 0
    /\ Len(schedule) >= 1
    /\ regimeBoundaries = schedule
    /\ delivered = <<>>
    /\ ResolverCalls(resolve) = 0

-----------------------------------------------------------------------------
(* Interpolation on compiled tracks *)

\* C33: on every track compiled from regimes that validateRegime accepts,
\* whatever Math.random() returned, and at every time from 0 on, guideHeight
\* divides by a time difference that is not zero and returns a height from
\* 0 to 1.
C33_HeightInUnitInterval ==
    (GuideDone /\ fnInput.points \in CompiledTracks) =>
        /\ fnOutput.result.den # 0
        /\ 0 <= fnOutput.result.num
        /\ fnOutput.result.num <= fnOutput.result.den

=============================================================================
